---- MODULE Spec2Model ----
(***************************************************************************)
(* Model of the crypto module of monero_rust: crypto/hash.rs (Hash,        *)
(* blake2b), crypto/signature.rs (Ed25519Keypair, verify_signature) and    *)
(* the use main.rs makes of them.                                          *)
(*                                                                         *)
(* The state is what a caller of the module holds: two Ed25519Keypair      *)
(* bindings (the `keypair` and `other` of test_sign_and_verify_full_flow), *)
(* the record of the call made last, one earlier result the caller kept    *)
(* in a local binding, and how many values OsRng has been asked for (the     *)
(* values themselves are arbitrary seeds).                                 *)
(*                                                                         *)
(* The ed25519_dalek and blake2 primitives are not code of the repository. *)
(* They are modelled as ideal primitives over a small group: a signature   *)
(* is an injective encoding of (signer's point, message), and it verifies  *)
(* under a point exactly when it is the signature the owner of that point  *)
(* makes for the message.  Byte lengths are the real ones.                 *)
(***************************************************************************)
EXTENDS Integers, Sequences, FiniteSets, TLC

VARIABLES kps, draws, last, kept

vars == <<kps, draws, last, kept>>

---------------------------------------------------------------------------
(* Bounds of the model *)

\* OsRng outcomes: the seeds 1..MaxSeeds
MaxSeeds == 2
\* messages and data are the byte strings of at most MaxMsgLen bytes
MaxMsgLen == 1

(* Program constants *)

PUBLIC_KEY_LENGTH == 32
SECRET_KEY_LENGTH == 32
SIGNATURE_LENGTH == 64
DIGEST_LENGTH == 64

\* order of the toy group standing for the curve, and its base point
GroupOrder == 251
BasePoint == 9
BasePointInverse == 28

Seeds == 1..MaxSeeds
MsgBytes == {0, 1}
Slots == {"keypair", "other"}

RECURSIVE SeqsUpTo(_)
SeqsUpTo(n) ==
    IF n = 0 THEN {<<>>}
    ELSE LET shorter == SeqsUpTo(n - 1)
         IN  shorter \cup {Append(s, b) : s \in {t \in shorter : Len(t) = n - 1}, b \in MsgBytes}

Messages == SeqsUpTo(MaxMsgLen)

Zeros(n) == [i \in 1..n |-> 0]
Pad(s, n) == [i \in 1..n |-> IF i <= Len(s) THEN s[i] ELSE 0]

---------------------------------------------------------------------------
(* ed25519_dalek, as the repository uses it *)

\* SigningKey::generate(&mut OsRng): the key is the seed drawn
SigningKey_generate(seed) == seed

\* SigningKey::verifying_key: the public point of a secret scalar
SigningKey_verifying_key(sk) == (sk * BasePoint) % GroupOrder

\* SigningKey::to_bytes: the 32 secret bytes
SigningKey_to_bytes(sk) == Pad(<<sk>>, SECRET_KEY_LENGTH)

\* VerifyingKey::to_bytes: the compressed point
VerifyingKey_to_bytes(vk) == Pad(<<vk>>, PUBLIC_KEY_LENGTH)

\* VerifyingKey::from_bytes decompresses; not every 32 bytes are a point
IsPoint(bytes) ==
    /\ bytes[1] \in 1..(GroupOrder - 1)
    /\ \A i \in 2..PUBLIC_KEY_LENGTH : bytes[i] = 0

VerifyingKey_from_bytes(bytes) == bytes[1]

\* Signer::sign: deterministic, a function of the secret key and the message
SigningKey_sign(sk, msg) ==
    [R |-> Pad(<<SigningKey_verifying_key(sk), Len(msg) + 1>>, SIGNATURE_LENGTH \div 2),
     s |-> Pad(<<(sk * 7 + Len(msg)) % GroupOrder>> \o [i \in 1..Len(msg) |-> msg[i] + 1], SIGNATURE_LENGTH \div 2)]

\* a signing that mixes the state of the random source into the nonce
SigningKey_sign_hedged(sk, msg) ==
    [R |-> Pad(<<SigningKey_verifying_key(sk), Len(msg) + 1, draws>>, SIGNATURE_LENGTH \div 2),
     s |-> Pad(<<(sk * 7 + Len(msg)) % GroupOrder>> \o [i \in 1..Len(msg) |-> msg[i] + 1], SIGNATURE_LENGTH \div 2)]

\* Signature::to_bytes and Signature::from_bytes: R followed by s
Signature_to_bytes(sig) == sig.R \o sig.s

Signature_from_bytes(bytes) ==
    [R |-> SubSeq(bytes, 1, SIGNATURE_LENGTH \div 2),
     s |-> SubSeq(bytes, SIGNATURE_LENGTH \div 2 + 1, SIGNATURE_LENGTH)]

\* the secret scalar behind a point (the toy group has an easy discrete log:
\* BasePoint * BasePointInverse = 1 modulo GroupOrder)
SecretOf(vk) == (vk * BasePointInverse) % GroupOrder

\* Verifier::verify: the signature is the one the owner of the point makes
VerifyingKey_verify(vk, msg, sig) == sig = SigningKey_sign(SecretOf(vk), msg)

\* <[u8; N]>::try_from(&[u8]): succeeds exactly on a slice of N bytes
try_into(slice, n) == Len(slice) = n

\* the boxed errors verify_signature returns, by concrete type and message
Ok == [type |-> "Ok", source |-> ""]
TryFromSliceError == [type |-> "TryFromSliceError", source |-> "could not convert slice to array"]
SignatureError(source) == [type |-> "SignatureError", source |-> source]

---------------------------------------------------------------------------
(* blake2 and hex, as the repository uses them *)

\* Blake2b512: new, update(data), finalize: 64 bytes that depend on every byte
Blake2b512(data) ==
    [i \in 1..DIGEST_LENGTH |->
        (i * 7 + Len(data) * 31 + (IF i <= Len(data) THEN (data[i] + 1) * 13 ELSE 0)) % 256]

\* a 256-bit digest of the same family
Blake2b256(data) == SubSeq(Blake2b512(data), 1, DIGEST_LENGTH \div 2)

\* a hasher salted from the random source of the process
Blake2b512_salted(data) ==
    [i \in 1..DIGEST_LENGTH |-> (Blake2b512(data)[i] + draws) % 256]

\* hex::encode: two lowercase hexadecimal characters (ASCII codes) per byte
HexChar(n) == IF n < 10 THEN 48 + n ELSE 87 + n
hex_encode(bytes) ==
    [i \in 1..(2 * Len(bytes)) |->
        IF i % 2 = 1 THEN HexChar(bytes[(i + 1) \div 2] \div 16)
        ELSE HexChar(bytes[i \div 2] % 16)]

---------------------------------------------------------------------------
(* crypto/signature.rs *)

\* struct Ed25519Keypair { pub public, pub signing_key }; no keypair bound yet
NoKeypair == [public |-> 0, signing_key |-> 0]

\* Ed25519Keypair::generate, on the seed OsRng yields for it
generate(seed) ==
    LET signing_key == SigningKey_generate(seed)
        public == SigningKey_verifying_key(signing_key)
    IN  [public |-> public, signing_key |-> signing_key]

sign_hedged(self, msg) == SigningKey_sign_hedged(self.signing_key, msg)

\* Ed25519Keypair::sign
sign(self, msg) == SigningKey_sign(self.signing_key, msg)

\* Ed25519Keypair::public_bytes
public_bytes(self) == VerifyingKey_to_bytes(self.public)

\* Ed25519Keypair::verifying_key
verifying_key(self) == self.public

\* verify_signature with the result of Verifier::verify dropped
verify_signature_unchecked(public_key, message, signature) ==
    IF ~try_into(public_key, PUBLIC_KEY_LENGTH) THEN TryFromSliceError
    ELSE IF ~IsPoint(public_key) THEN SignatureError("Cannot decompress Edwards point")
    ELSE IF ~try_into(signature, SIGNATURE_LENGTH) THEN TryFromSliceError
    ELSE Ok

\* verify_signature with the two array lengths exchanged
verify_signature_swapped(public_key, message, signature) ==
    IF ~try_into(public_key, SIGNATURE_LENGTH) THEN TryFromSliceError
    ELSE IF ~try_into(signature, PUBLIC_KEY_LENGTH) THEN TryFromSliceError
    ELSE Ok

\* verify_signature taking the key from the R half of the signature
verify_signature_self_certified(public_key, message, signature) ==
    IF ~try_into(public_key, PUBLIC_KEY_LENGTH) THEN TryFromSliceError
    ELSE IF ~IsPoint(public_key) THEN SignatureError("Cannot decompress Edwards point")
    ELSE IF ~try_into(signature, SIGNATURE_LENGTH) THEN TryFromSliceError
    ELSE IF ~VerifyingKey_verify(VerifyingKey_from_bytes(Signature_from_bytes(signature).R),
                                 message, Signature_from_bytes(signature))
         THEN SignatureError("Verification equation was not satisfied")
    ELSE Ok

\* verify_signature: the first `?` that fails returns its error
verify_signature(public_key, message, signature) ==
    IF ~try_into(public_key, PUBLIC_KEY_LENGTH) THEN TryFromSliceError
    ELSE IF ~IsPoint(public_key) THEN SignatureError("Cannot decompress Edwards point")
    ELSE IF ~try_into(signature, SIGNATURE_LENGTH) THEN TryFromSliceError
    ELSE IF ~VerifyingKey_verify(VerifyingKey_from_bytes(public_key), message,
                                 Signature_from_bytes(signature))
         THEN SignatureError("Verification equation was not satisfied")
    ELSE Ok

---------------------------------------------------------------------------
(* crypto/hash.rs *)

blake2b_256(data) == Blake2b256(data)

blake2b_salted(data) == Blake2b512_salted(data)

\* blake2b: Hash(hasher.finalize().to_vec())
blake2b(data) == Blake2b512(data)

---------------------------------------------------------------------------
(* The caller's state *)

\* the record of one call: the operation, the keypair it was made on, its
\* byte arguments, the bytes it returned, the Result of a verification, and
\* the bytes of the value returned as the caller holds it now (held)
Call(op, kp, pk, msg, sig, out, res) ==
    [op |-> op, kp |-> kp, pk |-> pk, msg |-> msg, sig |-> sig, out |-> out, res |-> res,
     held |-> out]

NoCall == Call("none", NoKeypair, <<>>, <<>>, <<>>, <<>>, Ok)

\* what a caller hands to verify_signature: the public bytes of a keypair it
\* holds with the signature it kept, over any message; and the malformed
\* buffers (10 zero bytes, 32 bytes that are no point, an all-zero signature)
BadKey == [i \in 1..PUBLIC_KEY_LENGTH |-> 255]
HeldKeys == {public_bytes(kps[i]) : i \in {j \in Slots : kps[j] # NoKeypair}}
HeldSigs == IF kept.op = "sign" THEN {kept.out} ELSE {}
VerifyInputs ==
    (HeldKeys \X Messages \X HeldSigs)
        \cup (HeldKeys \X {<<1>>} \X {Zeros(SIGNATURE_LENGTH), Zeros(10)})
        \cup ({Zeros(10), BadKey} \X {<<1>>} \X ({Zeros(SIGNATURE_LENGTH)} \cup HeldSigs))

Init ==
    /\ kps = [i \in Slots |-> NoKeypair]
    /\ draws = 0
    /\ last = NoCall
    /\ kept = NoCall

\* let k = Ed25519Keypair::generate();
Generate(i) ==
    /\ kps[i] = NoKeypair
    /\ \E seed \in Seeds : kps' = [kps EXCEPT ![i] = generate(seed)]
    /\ draws' = draws + 1
    /\ last' = Call("generate", kps'[i], <<>>, <<>>, <<>>, <<>>, Ok)
    /\ UNCHANGED kept

\* let sig_bytes = k.sign(msg).to_bytes();
Sign(i, msg) ==
    /\ kps[i] # NoKeypair
    /\ last' = Call("sign", kps[i], <<>>, msg, <<>>, Signature_to_bytes(sign(kps[i], msg)), Ok)
    /\ UNCHANGED <<kps, draws, kept>>

\* let pub_bytes = k.public_bytes();
PublicBytes(i) ==
    /\ kps[i] # NoKeypair
    /\ last' = Call("public_bytes", kps[i], <<>>, <<>>, <<>>, public_bytes(kps[i]), Ok)
    /\ UNCHANGED <<kps, draws, kept>>

\* k.verifying_key().verify(msg, &sig), on the signature kept and its message
VerifyDirect(i) ==
    /\ kps[i] # NoKeypair
    /\ kept.op = "sign"
    /\ last' = Call("verifying_key", kps[i], <<>>, kept.msg, kept.out, <<>>,
                    IF VerifyingKey_verify(verifying_key(kps[i]), kept.msg,
                                           Signature_from_bytes(kept.out))
                    THEN Ok ELSE SignatureError("Verification equation was not satisfied"))
    /\ UNCHANGED <<kps, draws, kept>>

\* let k2 = k.clone();
Clone(i, j) ==
    /\ i # j
    /\ kps[i] # NoKeypair
    /\ kps[j] # kps[i]
    /\ kps' = [kps EXCEPT ![j] = kps[i]]
    /\ last' = Call("clone", kps[i], <<>>, <<>>, <<>>, <<>>, Ok)
    /\ UNCHANGED <<draws, kept>>

\* verify_signature(&pk, msg, &sig)
Verify(pk, msg, sig) ==
    /\ last' = Call("verify", NoKeypair, pk, msg, sig, <<>>, verify_signature(pk, msg, sig))
    /\ UNCHANGED <<kps, draws, kept>>

\* let h = blake2b(data);
Blake2b(data) ==
    /\ last' = Call("hash", NoKeypair, <<>>, data, <<>>, blake2b(data), Ok)
    /\ UNCHANGED <<kps, draws, kept>>

\* let signature = keypair.sign(message); let h1 = blake2b(b"test");
\* the result of the last call stays bound to a local of the caller
Keep ==
    /\ last.op \in {"sign", "hash"}
    /\ kept # last
    /\ kept' = last
    /\ UNCHANGED <<kps, draws, last>>

\* k.public = k2.public;  (the field is pub)
AssignPublic(i, j) ==
    /\ kps[i] # NoKeypair /\ kps[j] # NoKeypair
    /\ kps[i].public # kps[j].public
    /\ kps' = [kps EXCEPT ![i].public = kps[j].public]
    /\ last' = Call("assign_public", kps'[i], <<>>, <<>>, <<>>, <<>>, Ok)
    /\ UNCHANGED <<draws, kept>>

\* k.signing_key = k2.signing_key.clone();  (the field is pub)
AssignSigningKey(i, j) ==
    /\ kps[i] # NoKeypair /\ kps[j] # NoKeypair
    /\ kps[i].signing_key # kps[j].signing_key
    /\ kps' = [kps EXCEPT ![i].signing_key = kps[j].signing_key]
    /\ last' = Call("assign_signing_key", kps'[i], <<>>, <<>>, <<>>, <<>>, Ok)
    /\ UNCHANGED <<draws, kept>>

\* main: hex::encode(wallet.signing_key.to_bytes()), printed
PrintSecretKey(i) ==
    /\ kps[i] # NoKeypair
    /\ last' = Call("print_secret", kps[i], <<>>, <<>>, <<>>,
                    hex_encode(SigningKey_to_bytes(kps[i].signing_key)), Ok)
    /\ UNCHANGED <<kps, draws, kept>>

\* h.0.clear();  (the field of Hash is pub)
HashFieldClear ==
    /\ kept.op = "hash"
    /\ kept.held # <<>>
    /\ kept' = [kept EXCEPT !.held = <<>>]
    /\ UNCHANGED <<kps, draws, last>>

Next ==
    \/ \E i \in Slots : Generate(i)
    \/ \E i \in Slots, msg \in Messages : Sign(i, msg)
    \/ \E i \in Slots : PublicBytes(i)
    \/ \E i \in Slots : VerifyDirect(i)
    \/ \E i \in Slots, j \in Slots : Clone(i, j)
    \/ \E in \in VerifyInputs : Verify(in[1], in[2], in[3])
    \/ \E data \in Messages : Blake2b(data)
    \/ Keep
    \/ \E i \in Slots, j \in Slots : AssignPublic(i, j)
    \/ \E i \in Slots, j \in Slots : AssignSigningKey(i, j)
    \/ \E i \in Slots : PrintSecretKey(i)
    \/ HashFieldClear

Spec == Init /\ [][Next]_vars

---------------------------------------------------------------------------
(* Properties *)

\* the Keypair values generate() can return
IsGenerated(k) == \E seed \in Seeds : k = generate(seed)

\* the error of a signature that does not authenticate the message
VerificationFailed == SignatureError("Verification equation was not satisfied")

\* m2 is m1 with one bit of one byte changed
SingleBitFlip(m1, m2) ==
    /\ Len(m1) = Len(m2)
    /\ \E i \in 1..Len(m1) :
        /\ {m1[i], m2[i]} = {0, 1}
        /\ \A j \in 1..Len(m1) : j # i => m1[j] = m2[j]

\* the last call verified the signature kept under the public bytes of pk_of
VerifiedKept(pk_of) ==
    /\ last.op = "verify"
    /\ kept.op = "sign"
    /\ IsGenerated(kept.kp)
    /\ last.pk = public_bytes(pk_of)
    /\ last.sig = kept.out

\* C1: signature round trip: verify_signature(k.public_bytes(), m, k.sign(m))
\* is Ok for every keypair k that generate() returns and every message m.
C1_RoundTrip ==
    (VerifiedKept(kept.kp) /\ last.msg = kept.msg) => last.res = Ok

C1_Witness ==
    VerifiedKept(kept.kp) /\ last.msg = kept.msg /\ kept.msg = <<>> /\ last.res = Ok

\* C2: tamper detection: verifying k.sign(m) under k.public_bytes() over a
\* message that differs from m fails with the verification error, not with a
\* malformed-input error.
C2_TamperDetection ==
    (VerifiedKept(kept.kp) /\ last.msg # kept.msg) => last.res = VerificationFailed

C2_Witness ==
    /\ VerifiedKept(kept.kp)
    /\ SingleBitFlip(kept.msg, last.msg)
    /\ last.res = VerificationFailed

\* C3: cross-key rejection: verifying k1.sign(m) over m under the public bytes
\* of a generated keypair k2 with a different key fails with the verification
\* error.
C3_CrossKeyRejection ==
    \A i \in Slots :
        (/\ IsGenerated(kps[i])
         /\ kps[i] # kept.kp
         /\ VerifiedKept(kps[i])
         /\ last.msg = kept.msg) => last.res = VerificationFailed

C3_Witness ==
    \E i \in Slots :
        /\ IsGenerated(kps[i])
        /\ kps[i] # kept.kp
        /\ VerifiedKept(kps[i])
        /\ last.msg = kept.msg
        /\ last.res = VerificationFailed

\* the malformed inputs of verify_signature, and the error the call
\* verify_signature([0u8; 10], "x", [0u8; 64]) returns for a malformed key
KeyMalformed(pk) == Len(pk) # PUBLIC_KEY_LENGTH \/ ~IsPoint(pk)
SigMalformed(sig) == Len(sig) # SIGNATURE_LENGTH
MalformedPublicKey == verify_signature(Zeros(10), <<1>>, Zeros(SIGNATURE_LENGTH))

\* C4: malformed input classification: a malformed public key and a malformed
\* signature are each reported by an error of their own (MalformedPublicKey,
\* MalformedSignature), told apart by the caller from each other, from the
\* verification error and from Ok.
C4_MalformedClassification ==
    last.op = "verify" =>
        /\ (KeyMalformed(last.pk) \/ SigMalformed(last.sig)) =>
                last.res \notin {Ok, VerificationFailed}
        /\ KeyMalformed(last.pk) /\ Len(last.pk) # PUBLIC_KEY_LENGTH =>
                last.res = MalformedPublicKey
        /\ (~KeyMalformed(last.pk) /\ SigMalformed(last.sig)) =>
                last.res # MalformedPublicKey

\* C5: secret isolation: nothing a caller obtains from a Keypair is its
\* private key, as bytes or rendered in hexadecimal.
C5_SecretIsolation ==
    \A i \in Slots :
        kps[i] # NoKeypair =>
            last.out \notin {SigningKey_to_bytes(kps[i].signing_key),
                             hex_encode(SigningKey_to_bytes(kps[i].signing_key))}

\* C6: keypair consistency: the public key of every Keypair is the one derived
\* from its private key; no operation of a caller changes one without the other.
C6_KeypairConsistency ==
    \A i \in Slots :
        kps[i] # NoKeypair =>
            kps[i].public = SigningKey_verifying_key(kps[i].signing_key)

\* C7: signing determinism: two sign calls with the same private key and the
\* same message return the same bytes, whatever was called in between.
C7_SignDeterminism ==
    (/\ last.op = "sign"
     /\ kept.op = "sign"
     /\ last.kp.signing_key = kept.kp.signing_key
     /\ last.msg = kept.msg) => last.out = kept.out

C7_Witness ==
    /\ last.op = "sign"
    /\ kept.op = "sign"
    /\ last.kp.signing_key = kept.kp.signing_key
    /\ last.msg = kept.msg
    /\ last.out = kept.out
    /\ draws = Cardinality(Slots)

\* C8: digest integrity: every Hash a caller holds is 64 bytes long and is the
\* digest of the data it was made from.
C8_DigestIntegrity ==
    \A r \in {last, kept} :
        r.op = "hash" => Len(r.held) = DIGEST_LENGTH /\ r.held = blake2b(r.msg)

\* C9: fixed digest length: blake2b returns 64 bytes for every input, the empty
\* one included, and never an error.
C9_DigestLength ==
    last.op = "hash" => Len(last.out) = DIGEST_LENGTH /\ last.res = Ok

C9_Witness ==
    last.op = "hash" /\ last.msg = <<>> /\ Len(last.out) = DIGEST_LENGTH

\* C10: determinism of hashing: two blake2b calls on the same bytes return the
\* same digest, whatever was called in between.
C10_HashDeterminism ==
    (last.op = "hash" /\ kept.op = "hash" /\ last.msg = kept.msg) => last.out = kept.out

C10_Witness ==
    /\ last.op = "hash"
    /\ kept.op = "hash"
    /\ last.msg = kept.msg
    /\ last.out = kept.out
    /\ draws > 0

====
